---- MODULE Spec2Model ----
(***************************************************************************)
(* The toy recommender of 22_dsfs_recommender_systems.ipynb: the table of  *)
(* users' interest lists, the structures the notebook's cells derive from  *)
(* it (unique_interests, the two membership matrices, the two cosine       *)
(* similarity matrices, the popularity ranking) and the ranking functions  *)
(* called on them.                                                         *)
(*                                                                         *)
(* Interest labels are the integers 1..NumLabels; their order stands for   *)
(* the string order that sorted() uses.  User ids and interest ids are     *)
(* 0-based as in the notebook; Python's xs[i] is written At(xs, i).        *)
(*                                                                         *)
(* Floating-point values are IEEE 754 doubles.  A float is the record      *)
(* [nan, val]: NaN (0 / 0.0), or the finite value val / 2^FracBits, held   *)
(* exactly.  The square root, the division and every += round their exact  *)
(* result to 53 bits as the hardware does, so two weights are equal, or    *)
(* ordered, in the model exactly when the doubles of the notebook are.     *)
(***************************************************************************)
EXTENDS Integers, Sequences, FiniteSets

\* Bounds of the model.
NumLabels == 3
MaxUsers == 3
MaxTotal == 4

Labels == 1..NumLabels

Max(a, b) == IF a >= b THEN a ELSE b

\* xs[i] with Python's 0-based index; a negative index counts from the end.
At(xs, i) == IF i < 0 THEN xs[Len(xs) + i + 1] ELSE xs[i + 1]

\* xs[i] raises IndexError.
IndexError(xs, i) == i >= Len(xs) \/ i < -Len(xs)

\* range(len(xs))
Ids(xs) == 0..(Len(xs) - 1)

\* `x in xs` on a list.
In(x, xs) == \E k \in 1..Len(xs) : xs[k] = x

------------------------------------------------------------------------------
\* IEEE 754 double arithmetic, as numpy and Python floats do it: every
\* operation gives the exact result rounded to a 53-bit mantissa, ties to even.
\*
\* A finite float >= 0 is held exactly, as the natural number val with
\* float = val / 2^FracBits; val is a sequence of NumLimbs limbs of LimbBits
\* bits, the lowest first.  Every float the notebook computes is 0.0, NaN or
\* at least 2^(MantissaBits - 1 - FracBits), so its last mantissa bit is a
\* multiple of 2^-FracBits, and it stays far below the largest double.

\* The most ones a vector of the notebook can hold: a row of
\* user_interest_matrix has one slot per interest, a row of
\* interest_user_matrix one per user, and in the table of cell 1 a user holds
\* up to SampleDim interests (no interest there has more holders).
SampleDim == 7
MaxDim == Max(Max(NumLabels, MaxUsers), SampleDim)

\* binary64: 53 bits of mantissa
MantissaBits == 53
FracBits == 64
LimbBits == 14
NumLimbs == 10
Base == 2^LimbBits

\* A sequence given element by element, with its elements evaluated.
Tuple(f) == f \o <<>>

\* Natural numbers below Base^NumLimbs.
BigZero == Tuple([k \in 1..NumLimbs |-> 0])
BigOfInt(n) == Tuple([k \in 1..NumLimbs |->
                        IF k = 1 THEN n % Base
                        ELSE IF k = 2 THEN (n \div Base) % Base
                        ELSE IF k = 3 THEN n \div (Base * Base)
                        ELSE 0])

\* The limbs of the number sum of raw[k] * Base^(k-1), the number being >= 0.
Carry(raw) ==
    LET c[k \in 0..NumLimbs] == IF k = 0 THEN 0 ELSE (raw[k] + c[k - 1]) \div Base
    IN Tuple([k \in 1..NumLimbs |-> (raw[k] + c[k - 1]) % Base])

\* a + b, a - b (a >= b), n * a (n < Base), a < b, 2^bit
BigAdd(a, b) == Carry([k \in 1..NumLimbs |-> a[k] + b[k]])
BigSub(a, b) == Carry([k \in 1..NumLimbs |-> a[k] - b[k]])
BigTimes(n, a) == Carry([k \in 1..NumLimbs |-> n * a[k]])
BigLT(a, b) == \E k \in 1..NumLimbs : /\ a[k] < b[k]
                                      /\ \A j \in (k + 1)..NumLimbs : a[j] = b[j]
BigPow2(bit) == Tuple([k \in 1..NumLimbs |->
                         IF k - 1 = bit \div LimbBits THEN 2^(bit % LimbBits) ELSE 0])

\* Bit number `bit` of a, the number of bits of a, and a mod 2^shift.
BigBit(a, bit) == (a[bit \div LimbBits + 1] \div 2^(bit % LimbBits)) % 2
BitLength(a) ==
    IF a = BigZero THEN 0
    ELSE LET top == CHOOSE k \in 1..NumLimbs :
                        a[k] # 0 /\ \A j \in (k + 1)..NumLimbs : a[j] = 0
             bits == CHOOSE b \in 1..LimbBits : 2^(b - 1) <= a[top] /\ a[top] < 2^b
         IN (top - 1) * LimbBits + bits
BigLow(a, shift) ==
    Tuple([k \in 1..NumLimbs |->
             IF k - 1 < shift \div LimbBits THEN a[k]
             ELSE IF k - 1 = shift \div LimbBits THEN a[k] % 2^(shift % LimbBits)
             ELSE 0])

\* The double nearest to a result of which a is the integer part (in units of
\* 2^-FracBits) and sticky tells that a fraction was cut off: round to
\* nearest, a tie to the even mantissa.
RoundToDouble(a, sticky) ==
    LET shift == BitLength(a) - MantissaBits
    IN IF shift <= 0 THEN a
       ELSE LET low == BigLow(a, shift)
                half == BigPow2(shift - 1)
                down == BigSub(a, low)
                up == \/ BigLT(half, low)
                      \/ low = half /\ (sticky \/ BigBit(a, shift) = 1)
            IN IF up THEN BigAdd(down, BigPow2(shift)) ELSE down

\* floor(sqrt(d))
ISqrt(d) == CHOOSE k \in 0..d : k * k <= d /\ (k + 1) * (k + 1) > d

\* One more bit of a square root: st.root is the root so far and st.r what is
\* left of the radicand, whose next two bits are 0.
SqrtStep(st) ==
    LET r4 == BigTimes(4, st.r)
        trial == BigAdd(BigTimes(4, st.root), BigOfInt(1))
        root2 == BigTimes(2, st.root)
    IN IF BigLT(r4, trial) THEN [root |-> root2, r |-> r4]
       ELSE [root |-> BigAdd(root2, BigOfInt(1)), r |-> BigSub(r4, trial)]

\* n steps, the first half of them and then the rest; the state after the
\* first half is measured so that it is a value when the rest starts.
RECURSIVE SqrtSteps(_, _)
SqrtSteps(st, n) ==
    IF n = 0 THEN st
    ELSE IF n = 1 THEN SqrtStep(st)
    ELSE LET next == SqrtSteps(st, n \div 2)
         IN IF Len(next.r) < 0 THEN next ELSE SqrtSteps(next, n - n \div 2)

\* np.sqrt(d) of an integer d >= 1 (d < Base, d * d within the integers)
BigSqrt(d) ==
    LET st == SqrtSteps([root |-> BigOfInt(ISqrt(d)),
                         r |-> BigOfInt(d - ISqrt(d) * ISqrt(d))], FracBits)
    IN RoundToDouble(st.root, st.r # BigZero)

\* One more bit of a quotient by s: st.q is the quotient so far and st.r the
\* remainder, the next bit of the dividend being 0.
DivStep(st, s) ==
    LET r2 == BigTimes(2, st.r)
        q2 == BigTimes(2, st.q)
    IN IF BigLT(r2, s) THEN [q |-> q2, r |-> r2]
       ELSE [q |-> BigAdd(q2, BigOfInt(1)), r |-> BigSub(r2, s)]

RECURSIVE DivSteps(_, _, _)
DivSteps(st, s, n) ==
    IF n = 0 THEN st
    ELSE IF n = 1 THEN DivStep(st, s)
    ELSE LET next == DivSteps(st, s, n \div 2)
         IN IF Len(next.q) < 0 THEN next ELSE DivSteps(next, s, n - n \div 2)

\* n / s for an integer n in 0..Base-1 and a double s >= 1.0: the division
\* of n * 2^(2 * FracBits) by s * 2^FracBits, started where the dividend
\* n * 2^(FracBits - LimbBits) is still below the divisor.
BigDiv(n, s) ==
    LET st == DivSteps([q |-> BigZero, r |-> BigTimes(n, BigPow2(FracBits - LimbBits))],
                       s, FracBits + LimbBits)
    IN RoundToDouble(st.q, st.r # BigZero)

\* The values n / np.sqrt(d) of cosine_similarity on vectors of up to MaxDim
\* ones, computed once: d = b * c with b, c in 1..MaxDim, and n >= 1 at most
\* min(b, c) <= floor(sqrt(d)).
QuotientTable ==
    Tuple([d \in 1..(MaxDim * MaxDim) |->
             IF \E b, c \in 1..MaxDim : b * c = d
             THEN LET s == BigSqrt(d)
                  IN Tuple([n \in 1..ISqrt(d) |-> BigDiv(n, s)])
             ELSE <<>>])

\* n / np.sqrt(d), d >= 1
Quotient(n, d) ==
    IF n = 0 THEN BigZero
    ELSE IF d <= Len(QuotientTable) /\ n <= Len(QuotientTable[d])
    THEN QuotientTable[d][n]
    ELSE BigDiv(n, BigSqrt(d))

NaN == [nan |-> TRUE, val |-> BigZero]
Finite(val) == [nan |-> FALSE, val |-> val]

\* The float 0.0, x + y, x == y, x > y and x >= y on IEEE floats: NaN + x is
\* NaN and every comparison with NaN is false.
Float0 == Finite(BigZero)
FloatAdd(x, y) == IF x.nan \/ y.nan THEN NaN
                  ELSE Finite(RoundToDouble(BigAdd(x.val, y.val), FALSE))
FloatEq(x, y) == ~x.nan /\ ~y.nan /\ x.val = y.val
FloatGT(x, y) == ~x.nan /\ ~y.nan /\ BigLT(y.val, x.val)
FloatGE(x, y) == FloatGT(x, y) \/ FloatEq(x, y)

------------------------------------------------------------------------------
\* The tables of interest lists the model is run on.

\* lens[1] + ... + lens[n]
RECURSIVE SumTo(_, _)
SumTo(lens, n) == IF n = 0 THEN 0 ELSE lens[n] + SumTo(lens, n - 1)

\* The table whose u-th list is the next lens[u] labels of the sequence labels.
Split(lens, labels) ==
    [u \in 1..Len(lens) |-> SubSeq(labels, SumTo(lens, u - 1) + 1, SumTo(lens, u))]

\* The list lengths of the tables of n users that hold at most MaxTotal labels
\* in all (a label may repeat, in one list or across lists).
Shapes(n) == {lens \in [1..n -> 0..MaxTotal] : SumTo(lens, n) <= MaxTotal}

\* The table of cell 1.  Its labels, in the order sorted() gives strings, are
\* numbered from 1: label k of SampleTable is SampleNames[k].
SampleNames ==
    <<"Big Data", "C++", "Cassandra", "HBase", "Hadoop", "Haskell", "Java",
      "Mahout", "MapReduce", "MongoDB", "MySQL", "NoSQL", "Postgres",
      "Python", "R", "Spark", "Storm", "artificial intelligence",
      "databases", "decision trees", "deep learning", "libsvm",
      "machine learning", "mathematics", "neural networks", "numpy",
      "pandas", "probability", "programming languages", "regression",
      "scikit-learn", "scipy", "statistics", "statsmodels",
      "support vector machines", "theory">>

SampleTable ==
    <<<<5, 1, 4, 7, 16, 17, 3>>,
      <<12, 10, 3, 4, 13>>,
      <<14, 31, 32, 26, 34, 27>>,
      <<15, 14, 33, 30, 28>>,
      <<23, 30, 20, 22>>,
      <<14, 15, 7, 2, 6, 29>>,
      <<33, 28, 24, 36>>,
      <<23, 31, 8, 25>>,
      <<25, 21, 1, 18>>,
      <<5, 7, 9, 1>>,
      <<33, 15, 34>>,
      <<2, 21, 18, 28>>,
      <<27, 15, 14>>,
      <<19, 4, 13, 11, 10>>,
      <<22, 30, 35>>>>

------------------------------------------------------------------------------
\* The notebook's state: its global names and the cell that runs next.

VARIABLES pc, users_interests, popular_interests, unique_interests,
          user_interest_matrix, user_similarities, interest_user_matrix,
          interest_similarities, call

vars == <<pc, users_interests, popular_interests, unique_interests,
          user_interest_matrix, user_similarities, interest_user_matrix,
          interest_similarities, call>>

\* A name no cell has bound yet.
Unbound == "unbound"
NoCall == [op |-> "none"]

------------------------------------------------------------------------------
\* sorted(pairs, key=lambda x : x[1], reverse=True): a stable sort, so pairs
\* with equal keys keep the order they had.  The keys are floats (similarities
\* and weights), compared as doubles.  No key is NaN: the lists that are
\* sorted hold similarities that passed similarity > 0 and sums of such.
InsertDesc(sorted, p) ==
    LET notLess == {k \in 1..Len(sorted) : ~FloatGT(p[2], sorted[k][2])}
        n == Cardinality(notLess)
    IN SubSeq(sorted, 1, n) \o <<p>> \o SubSeq(sorted, n + 1, Len(sorted))

\* In the loops below the value built so far is measured at each turn (its
\* length is never negative), so that it is a value when the next turn starts
\* and not a pending expression as deep as the loop is long.  A loop over a
\* long list is the loop over its first half followed by the loop over the
\* rest.
RECURSIVE SortFrom(_, _)
SortFrom(sorted, rest) ==
    IF rest = <<>> THEN sorted
    ELSE IF Len(rest) = 1 THEN InsertDesc(sorted, rest[1])
    ELSE LET half == Len(rest) \div 2
             next == SortFrom(sorted, SubSeq(rest, 1, half))
         IN IF Len(next) < 0 THEN next
            ELSE SortFrom(next, SubSeq(rest, half + 1, Len(rest)))

SortedDesc(pairs) == SortFrom(<<>>, pairs)

Reversed(xs) == [k \in 1..Len(xs) |-> xs[Len(xs) + 1 - k]]

\* Mutants of the sort: reverse=True left out, and a sort that is not stable
\* (pairs with equal keys come out in the opposite order).
sorted_without_reverse(pairs) == Reversed(SortedDesc(Reversed(pairs)))
sorted_ties_reversed(pairs) == SortedDesc(Reversed(pairs))

\* The call of sorted in the four ranking functions.
sorted_by_weight(pairs) == SortedDesc(pairs)

\* enumerate(xs)
Enumerate(xs) == [k \in 1..Len(xs) |-> <<k - 1, xs[k]>>]

------------------------------------------------------------------------------
\* Cell 2: Counter(...).most_common()

RECURSIVE Flatten(_)
Flatten(t) == IF t = <<>> THEN <<>> ELSE Head(t) \o Flatten(Tail(t))

\* counts[x] += 1 on a Counter, kept as its items in insertion order.
CountOne(counts, x) ==
    IF \E k \in 1..Len(counts) : counts[k][1] = x
    THEN [k \in 1..Len(counts) |->
            IF counts[k][1] = x THEN <<x, counts[k][2] + 1>> ELSE counts[k]]
    ELSE Append(counts, <<x, 1>>)

RECURSIVE Counter(_, _)
Counter(counts, xs) ==
    IF xs = <<>> THEN counts
    ELSE LET next == CountOne(counts, Head(xs))
         IN IF Len(next) < 0 THEN next ELSE Counter(next, Tail(xs))

\* most_common(): sorted(items, key=itemgetter(1), reverse=True) on int counts
InsertByCount(sorted, p) ==
    LET notLess == {k \in 1..Len(sorted) : ~(p[2] > sorted[k][2])}
        n == Cardinality(notLess)
    IN SubSeq(sorted, 1, n) \o <<p>> \o SubSeq(sorted, n + 1, Len(sorted))

RECURSIVE SortByCountFrom(_, _)
SortByCountFrom(sorted, rest) ==
    IF rest = <<>> THEN sorted
    ELSE IF Len(rest) = 1 THEN InsertByCount(sorted, rest[1])
    ELSE LET half == Len(rest) \div 2
             next == SortByCountFrom(sorted, SubSeq(rest, 1, half))
         IN IF Len(next) < 0 THEN next
            ELSE SortByCountFrom(next, SubSeq(rest, half + 1, Len(rest)))

\* for users_interests in users_interests: for interest in users_interests:
\* the labels of Flatten(t), counted list by list.
RECURSIVE CountLists(_, _)
CountLists(counts, t) ==
    IF t = <<>> THEN counts
    ELSE LET next == Counter(counts, Head(t))
         IN IF Len(next) < 0 THEN next ELSE CountLists(next, Tail(t))

most_common(t) == SortByCountFrom(<<>>, CountLists(<<>>, t))

\* xs[:n]; a negative n leaves out the last -n elements.
Prefix(xs, n) ==
    SubSeq(xs, 1, IF n < 0 THEN Max(Len(xs) + n, 0)
                  ELSE IF n < Len(xs) THEN n ELSE Len(xs))

\* Cell 3: most_popular_new_interests, and the default of max_results
DefaultMaxResults == 5

most_popular_new_interests(user_interests, max_results) ==
    LET New(p) == ~In(p[1], user_interests)
        suggested_interests == SelectSeq(popular_interests, New)
    IN Prefix(suggested_interests, max_results)

------------------------------------------------------------------------------
\* Cell 5: cosine_similarity

RECURSIVE dot(_, _)
dot(v, w) ==
    IF v = <<>> THEN 0
    ELSE IF Len(v) = 1 THEN v[1] * w[1]
    ELSE LET half == Len(v) \div 2
         IN dot(SubSeq(v, 1, half), SubSeq(w, 1, half))
              + dot(SubSeq(v, half + 1, Len(v)), SubSeq(w, half + 1, Len(v)))

\* Mutant: the norm of w left out of the denominator.
cosine_similarity_one_norm(v, w) ==
    IF dot(v, v) * dot(w, w) = 0 THEN NaN ELSE Finite(Quotient(dot(v, w), dot(v, v)))

\* Mutant: a zero norm answered with 0.0.
cosine_similarity_zero_guard(v, w) ==
    LET d == dot(v, v) * dot(w, w)
    IN IF d = 0 THEN Float0 ELSE Finite(Quotient(dot(v, w), d))

\* np.dot(v, w) / np.sqrt(np.dot(v, v) * np.dot(w, w)); a zero norm makes it
\* 0 / 0.0, which numpy evaluates to nan (with a warning, not an exception).
cosine_similarity(v, w) ==
    LET d == dot(v, v) * dot(w, w)
    IN IF d = 0 THEN NaN ELSE Finite(Quotient(dot(v, w), d))

------------------------------------------------------------------------------
\* Cell 6: sorted(list({interest for interests in users_interests ...}))

\* Mutant: sorted(..., reverse=True)
RECURSIVE SortedListDescending(_)
SortedListDescending(S) ==
    IF S = {} THEN <<>>
    ELSE LET m == CHOOSE x \in S : \A y \in S : x >= y
         IN <<m>> \o SortedListDescending(S \ {m})

\* sorted(list(S)): element k has k - 1 smaller elements before it.
SortedList(S) ==
    [k \in 1..Cardinality(S) |->
        CHOOSE x \in S : Cardinality({y \in S : y < x}) = k - 1]

LabelsOf(t) == UNION {{t[u][k] : k \in DOMAIN t[u]} : u \in DOMAIN t}

------------------------------------------------------------------------------
\* Cell 7: generate_user_interest_vector reads the global unique_interests.

\* Mutant: element i counts the occurrences of unique_interests[i].
generate_user_interest_counts(user_interests) ==
    [i \in 1..Len(unique_interests) |->
        Cardinality({k \in 1..Len(user_interests) :
                        user_interests[k] = unique_interests[i]})]

generate_user_interest_vector(user_interests) ==
    [i \in 1..Len(unique_interests) |->
        IF In(unique_interests[i], user_interests) THEN 1 ELSE 0]

\* Mutant: the entries below the diagonal left at 0.0.
SimilaritiesUpper(matrix) ==
    [i \in 1..Len(matrix) |->
        [j \in 1..Len(matrix) |->
            IF j >= i THEN cosine_similarity(matrix[i], matrix[j]) ELSE Float0]]

\* Cells 9 and 18: the matrix of the cosine similarities of every two rows.
Similarities(matrix) ==
    [i \in 1..Len(matrix) |->
        [j \in 1..Len(matrix) |-> cosine_similarity(matrix[i], matrix[j])]]

\* Mutant: the users taken in the opposite order.
TransposedUsersReversed(matrix) ==
    [j \in 1..Len(unique_interests) |->
        [u \in 1..Len(matrix) |-> matrix[Len(matrix) + 1 - u][j]]]

\* Cell 17: the transposition, one row per entry of unique_interests.
Transposed(matrix) ==
    [j \in 1..Len(unique_interests) |->
        [u \in 1..Len(matrix) |-> matrix[u][j]]]

------------------------------------------------------------------------------
\* Cell 12: get_similar_users

\* Mutant: the test user_id != other_user_id left out.
get_similar_users_with_self(user_id) ==
    LET Keep(p) == FloatGT(p[2], Float0)
        pairs == SelectSeq(Enumerate(At(user_similarities, user_id)), Keep)
    IN sorted_by_weight(pairs)

\* Mutant: the test similarity > 0 written with >=.
get_similar_users_with_zero(user_id) ==
    LET Keep(p) == user_id # p[1] /\ FloatGE(p[2], Float0)
        pairs == SelectSeq(Enumerate(At(user_similarities, user_id)), Keep)
    IN sorted_by_weight(pairs)

get_similar_users(user_id) ==
    LET Keep(p) == user_id # p[1] /\ FloatGT(p[2], Float0)
        pairs == SelectSeq(Enumerate(At(user_similarities, user_id)), Keep)
    IN sorted_by_weight(pairs)

\* Mutant: a list of pairs in place of the dictionary.
AccumulateAppending(suggestions, interest, similarity) ==
    Append(suggestions, <<interest, FloatAdd(Float0, similarity)>>)

\* suggestions[interest] += similarity on a defaultdict(float), kept as its
\* items in insertion order: a new key starts from 0.0 and goes last.
Accumulate(suggestions, interest, similarity) ==
    IF \E k \in 1..Len(suggestions) : suggestions[k][1] = interest
    THEN [k \in 1..Len(suggestions) |->
            IF suggestions[k][1] = interest
            THEN <<interest, FloatAdd(suggestions[k][2], similarity)>>
            ELSE suggestions[k]]
    ELSE Append(suggestions, <<interest, FloatAdd(Float0, similarity)>>)

\* The inner loop as the comment of cell 14 describes it (add up the
\* similarities of the other users interested in the interest): a label
\* repeated in the list is added once.
RECURSIVE AddDistinctInterests(_, _, _)
AddDistinctInterests(suggestions, interests, similarity) ==
    IF interests = <<>> THEN suggestions
    ELSE AddDistinctInterests(
            IF In(Head(interests), Tail(interests)) THEN suggestions
            ELSE Accumulate(suggestions, Head(interests), similarity),
            Tail(interests), similarity)

\* Mutant: the loop left after its first turn.
AddFirstInterest(suggestions, interests, similarity) ==
    IF interests = <<>> THEN suggestions
    ELSE Accumulate(suggestions, Head(interests), similarity)

\* for interest in interests: suggestions[interest] += similarity
RECURSIVE AddInterests(_, _, _)
AddInterests(suggestions, interests, similarity) ==
    IF interests = <<>> THEN suggestions
    ELSE LET next == Accumulate(suggestions, Head(interests), similarity)
         IN IF Len(next) < 0 THEN next
            ELSE AddInterests(next, Tail(interests), similarity)

\* for other_user_id, similarity in similar: the loop above on that user's list
RECURSIVE AddUsers(_, _)
AddUsers(suggestions, similar) ==
    IF similar = <<>> THEN suggestions
    ELSE LET next == AddInterests(suggestions,
                                  At(users_interests, Head(similar)[1]),
                                  Head(similar)[2])
         IN IF Len(next) < 0 THEN next ELSE AddUsers(next, Tail(similar))

\* Mutants: the flag ignored, and the flag read the wrong way round.
ReturnedUnfiltered(suggestions, user_id, include_current_interests) == suggestions
ReturnedFlagInverted(suggestions, user_id, include_current_interests) ==
    IF ~include_current_interests THEN suggestions
    ELSE LET New(p) == ~In(p[1], At(users_interests, user_id))
         IN SelectSeq(suggestions, New)

\* Mutant: the filter written without its `not`.
ReturnedHeld(suggestions, user_id, include_current_interests) ==
    IF include_current_interests THEN suggestions
    ELSE LET Held(p) == In(p[1], At(users_interests, user_id))
         IN SelectSeq(suggestions, Held)

\* The return statement both suggestion functions end with.
Returned(suggestions, user_id, include_current_interests) ==
    IF include_current_interests THEN suggestions
    ELSE LET New(p) == ~In(p[1], At(users_interests, user_id))
         IN SelectSeq(suggestions, New)

\* Cell 14: user_based_suggestions
user_based_suggestions(user_id, include_current_interests) ==
    LET suggestions == AddUsers(<<>>, get_similar_users(user_id))
    IN Returned(sorted_by_weight(suggestions), user_id, include_current_interests)

------------------------------------------------------------------------------
\* Cell 19: get_similar_interests

\* Mutant: the test similarity > 0 left out.
get_similar_interests_with_zero(interest_id) ==
    LET similarities == At(interest_similarities, interest_id)
        Keep(p) == interest_id # p[1]
        Named(p) == <<At(unique_interests, p[1]), p[2]>>
        kept == SelectSeq(Enumerate(similarities), Keep)
        pairs == [k \in 1..Len(kept) |-> Named(kept[k])]
    IN sorted_by_weight(pairs)

\* Mutant: the test interest_id != other_interest_id written with ==.
get_similar_interests_only_self(interest_id) ==
    LET similarities == At(interest_similarities, interest_id)
        Keep(p) == interest_id = p[1] /\ FloatGT(p[2], Float0)
        Named(p) == <<At(unique_interests, p[1]), p[2]>>
        kept == SelectSeq(Enumerate(similarities), Keep)
        pairs == [k \in 1..Len(kept) |-> Named(kept[k])]
    IN sorted_by_weight(pairs)

get_similar_interests(interest_id) ==
    LET similarities == At(interest_similarities, interest_id)
        Keep(p) == interest_id # p[1] /\ FloatGT(p[2], Float0)
        Named(p) == <<At(unique_interests, p[1]), p[2]>>
        kept == SelectSeq(Enumerate(similarities), Keep)
        pairs == [k \in 1..Len(kept) |-> Named(kept[k])]
    IN sorted_by_weight(pairs)

\* for interest, similarity in similar_interests: suggestions[interest] += similarity
RECURSIVE AddSimilar(_, _)
AddSimilar(suggestions, similar_interests) ==
    IF similar_interests = <<>> THEN suggestions
    ELSE LET next == Accumulate(suggestions, Head(similar_interests)[1],
                                Head(similar_interests)[2])
         IN IF Len(next) < 0 THEN next
            ELSE AddSimilar(next, Tail(similar_interests))

\* Mutant: the test is_interested == 1 left out.
RECURSIVE AddEvery(_, _, _)
AddEvery(suggestions, user_interest_vector, interest_id) ==
    IF interest_id >= Len(user_interest_vector) THEN suggestions
    ELSE AddEvery(AddSimilar(suggestions, get_similar_interests(interest_id)),
                  user_interest_vector, interest_id + 1)

\* for interest_id, is_interested in enumerate(user_interest_vector), from
\* interest_id on: the turns with is_interested == 1, the others do nothing.
RECURSIVE AddHeld(_, _, _)
AddHeld(suggestions, user_interest_vector, interest_id) ==
    LET held == {i \in interest_id..(Len(user_interest_vector) - 1) :
                    At(user_interest_vector, i) = 1}
    IN IF held = {} THEN suggestions
       ELSE LET first == CHOOSE i \in held : \A j \in held : i <= j
                next == AddSimilar(suggestions, get_similar_interests(first))
            IN IF Len(next) < 0 THEN next
               ELSE AddHeld(next, user_interest_vector, first + 1)

\* Cell 21: item_based_suggestions
item_based_suggestions(user_id, include_current_interests) ==
    LET suggestions == AddHeld(<<>>, At(user_interest_matrix, user_id), 0)
    IN Returned(sorted_by_weight(suggestions), user_id, include_current_interests)

------------------------------------------------------------------------------
\* The cells, run top to bottom, and then the calls.

Init ==
    /\ pc = "cell1"
    /\ users_interests = Unbound
    /\ popular_interests = Unbound
    /\ unique_interests = Unbound
    /\ user_interest_matrix = Unbound
    /\ user_similarities = Unbound
    /\ interest_user_matrix = Unbound
    /\ interest_similarities = Unbound
    /\ call = NoCall

\* The kernel runs one cell at a time: a cell starts only when no call is
\* pending (call = NoCall), that is when the cell that made the call has ended.

\* users_interests = [...]: the literal table, here any table within the bounds
Cell1 ==
    /\ pc = "cell1"
    /\ call = NoCall
    /\ \E n \in 0..MaxUsers : \E lens \in Shapes(n) :
         \E labels \in [1..SumTo(lens, n) -> Labels] :
            users_interests' = Split(lens, labels)
    /\ pc' = "cell2"
    /\ UNCHANGED <<popular_interests, unique_interests, user_interest_matrix,
                   user_similarities, interest_user_matrix, interest_similarities,
                   call>>

Cell2 ==
    /\ pc = "cell2"
    /\ call = NoCall
    /\ popular_interests' = most_common(users_interests)
    /\ pc' = "cell6"
    /\ UNCHANGED <<users_interests, unique_interests, user_interest_matrix,
                   user_similarities, interest_user_matrix, interest_similarities,
                   call>>

Cell6 ==
    /\ pc = "cell6"
    /\ call = NoCall
    /\ unique_interests' = SortedList(LabelsOf(users_interests))
    /\ pc' = "cell8"
    /\ UNCHANGED <<users_interests, popular_interests, user_interest_matrix,
                   user_similarities, interest_user_matrix, interest_similarities,
                   call>>

\* list(map(generate_user_interest_vector, users_interests))
Cell8 ==
    /\ pc = "cell8"
    /\ call = NoCall
    /\ user_interest_matrix' =
         [u \in 1..Len(users_interests) |->
            generate_user_interest_vector(users_interests[u])]
    /\ pc' = "cell9"
    /\ UNCHANGED <<users_interests, popular_interests, unique_interests,
                   user_similarities, interest_user_matrix, interest_similarities,
                   call>>

Cell9 ==
    /\ pc = "cell9"
    /\ call = NoCall
    /\ user_similarities' = Similarities(user_interest_matrix)
    /\ pc' = "cell17"
    /\ UNCHANGED <<users_interests, popular_interests, unique_interests,
                   user_interest_matrix, interest_user_matrix,
                   interest_similarities, call>>

Cell17 ==
    /\ pc = "cell17"
    /\ call = NoCall
    /\ interest_user_matrix' = Transposed(user_interest_matrix)
    /\ pc' = "cell18"
    /\ UNCHANGED <<users_interests, popular_interests, unique_interests,
                   user_interest_matrix, user_similarities,
                   interest_similarities, call>>

Cell18 ==
    /\ pc = "cell18"
    /\ call = NoCall
    /\ interest_similarities' = Similarities(interest_user_matrix)
    /\ pc' = "ready"
    /\ UNCHANGED <<users_interests, popular_interests, unique_interests,
                   user_interest_matrix, user_similarities, interest_user_matrix,
                   call>>

globals == <<users_interests, popular_interests, unique_interests,
             user_interest_matrix, user_similarities, interest_user_matrix,
             interest_similarities>>

\* get_similar_users and user_based_suggestions read users_interests and
\* user_similarities alone, so they can be called as soon as cell 9 has run
\* (the notebook calls them in cells 13 and 16, before cell 17); the
\* item-based functions read interest_similarities, bound by cell 18.
UserSimilaritiesBound == {"cell17", "cell18", "ready"}

\* Mutant of CallGetSimilarUsers: the row of user_similarities sorted in place
\* (list.sort) before it is read.
CallGetSimilarUsersSortingInPlace ==
    /\ pc \in UserSimilaritiesBound
    /\ call = NoCall
    /\ \E user_id \in Ids(users_interests) :
         LET row == SortedDesc(Enumerate(At(user_similarities, user_id)))
         IN /\ user_similarities' =
                  [user_similarities EXCEPT
                      ![user_id + 1] = [k \in 1..Len(row) |-> row[k][2]]]
            /\ call' = [op |-> "get_similar_users", user_id |-> user_id,
                        result |-> get_similar_users(user_id)]
    /\ UNCHANGED <<pc, users_interests, popular_interests, unique_interests,
                   user_interest_matrix, interest_user_matrix,
                   interest_similarities>>

CallGetSimilarUsers ==
    /\ pc \in UserSimilaritiesBound
    /\ call = NoCall
    /\ \E user_id \in Ids(users_interests) :
         call' = [op |-> "get_similar_users", user_id |-> user_id,
                  result |-> get_similar_users(user_id)]
    /\ UNCHANGED <<pc, globals>>

CallUserBasedSuggestions ==
    /\ pc \in UserSimilaritiesBound
    /\ call = NoCall
    /\ \E user_id \in Ids(users_interests), include_current_interests \in BOOLEAN :
         call' = [op |-> "user_based_suggestions", user_id |-> user_id,
                  include_current_interests |-> include_current_interests,
                  result |-> user_based_suggestions(user_id, include_current_interests)]
    /\ UNCHANGED <<pc, globals>>

CallGetSimilarInterests ==
    /\ pc = "ready"
    /\ call = NoCall
    /\ \E interest_id \in Ids(unique_interests) :
         call' = [op |-> "get_similar_interests", interest_id |-> interest_id,
                  result |-> get_similar_interests(interest_id)]
    /\ UNCHANGED <<pc, globals>>

CallItemBasedSuggestions ==
    /\ pc = "ready"
    /\ call = NoCall
    /\ \E user_id \in Ids(users_interests), include_current_interests \in BOOLEAN :
         call' = [op |-> "item_based_suggestions", user_id |-> user_id,
                  include_current_interests |-> include_current_interests,
                  result |-> item_based_suggestions(user_id, include_current_interests)]
    /\ UNCHANGED <<pc, globals>>

\* generate_user_interest_vector reads unique_interests alone, so it can be
\* called as soon as cell 6 has run; its argument is any list of labels.
MaxArgLen == 3

CallGenerateUserInterestVector ==
    /\ pc \notin {"cell1", "cell2", "cell6"}
    /\ call = NoCall
    /\ \E n \in 0..MaxArgLen : \E user_interests \in [1..n -> Labels] :
         call' = [op |-> "generate_user_interest_vector",
                  user_interests |-> user_interests,
                  result |-> generate_user_interest_vector(user_interests)]
    /\ UNCHANGED <<pc, globals>>

\* The cell that made the call ends: its value is shown and the kernel is idle
\* again.
Return ==
    /\ call # NoCall
    /\ call' = NoCall
    /\ UNCHANGED <<pc, globals>>

Next ==
    \/ Cell1
    \/ Cell2
    \/ Cell6
    \/ Cell8
    \/ Cell9
    \/ Cell17
    \/ Cell18
    \/ CallGetSimilarUsers
    \/ CallUserBasedSuggestions
    \/ CallGetSimilarInterests
    \/ CallItemBasedSuggestions
    \/ Return

Spec == Init /\ [][Next]_vars

\* The notebook run up to cell 7, and then calls of the vectorizer.
NextVector ==
    \/ Cell1
    \/ Cell2
    \/ Cell6
    \/ CallGenerateUserInterestVector
    \/ Return

SpecVector == Init /\ [][NextVector]_vars

------------------------------------------------------------------------------
\* most_popular_new_interests reads popular_interests alone, so it can be
\* called as soon as cell 2 has run; its arguments are any list of at most
\* MaxListLen labels and a max_results up to MaxResults, or left to its default.
MaxListLen == 2
MaxResults == 2

CallMostPopularNewInterests ==
    /\ pc \notin {"cell1", "cell2"}
    /\ call = NoCall
    /\ \E n \in 0..MaxListLen : \E user_interests \in [1..n -> Labels] :
         \E max_results \in ((-1)..MaxResults) \cup {DefaultMaxResults} :
            call' = [op |-> "most_popular_new_interests",
                     user_interests |-> user_interests,
                     max_results |-> max_results,
                     result |-> most_popular_new_interests(user_interests, max_results)]
    /\ UNCHANGED <<pc, globals>>

\* The notebook, and then calls of all five functions.
NextAllCalls ==
    \/ Cell1
    \/ Cell2
    \/ Cell6
    \/ Cell8
    \/ Cell9
    \/ Cell17
    \/ Cell18
    \/ CallMostPopularNewInterests
    \/ CallGetSimilarUsers
    \/ CallUserBasedSuggestions
    \/ CallGetSimilarInterests
    \/ CallItemBasedSuggestions
    \/ Return

SpecAllCalls == Init /\ [][NextAllCalls]_vars

------------------------------------------------------------------------------
\* The notebook as it is written: cell 1 binds the table of the source.
Cell1Sample ==
    /\ pc = "cell1"
    /\ call = NoCall
    /\ users_interests' = SampleTable
    /\ pc' = "cell2"
    /\ UNCHANGED <<popular_interests, unique_interests, user_interest_matrix,
                   user_similarities, interest_user_matrix, interest_similarities,
                   call>>

NextSample ==
    \/ Cell1Sample
    \/ Cell2
    \/ Cell6
    \/ Cell8
    \/ Cell9
    \/ Cell17
    \/ Cell18
    \/ CallGetSimilarUsers
    \/ CallUserBasedSuggestions
    \/ CallGetSimilarInterests
    \/ CallItemBasedSuggestions
    \/ Return

SpecSample == Init /\ [][NextSample]_vars

------------------------------------------------------------------------------
\* Calls with an id that is no index of the table: the ids up to MaxBeyond
\* past either end of range(-len, len), and the negative ids that Python
\* takes as indices from the end.  A call that raises leaves no result.
MaxBeyond == 1

OutOfRange(xs) == ((-Len(xs) - MaxBeyond)..(Len(xs) - 1 + MaxBeyond)) \ Ids(xs)

CallGetSimilarUsersOutOfRange ==
    /\ pc \in UserSimilaritiesBound
    /\ call = NoCall
    /\ \E user_id \in OutOfRange(users_interests) :
         call' = IF IndexError(user_similarities, user_id)
                 THEN [op |-> "get_similar_users", user_id |-> user_id,
                       raised |-> "IndexError"]
                 ELSE [op |-> "get_similar_users", user_id |-> user_id,
                       result |-> get_similar_users(user_id)]
    /\ UNCHANGED <<pc, globals>>

\* get_similar_users(user_id) is the first statement to index with user_id.
CallUserBasedSuggestionsOutOfRange ==
    /\ pc \in UserSimilaritiesBound
    /\ call = NoCall
    /\ \E user_id \in OutOfRange(users_interests), include_current_interests \in BOOLEAN :
         call' = IF IndexError(user_similarities, user_id)
                 THEN [op |-> "user_based_suggestions", user_id |-> user_id,
                       include_current_interests |-> include_current_interests,
                       raised |-> "IndexError"]
                 ELSE [op |-> "user_based_suggestions", user_id |-> user_id,
                       include_current_interests |-> include_current_interests,
                       result |-> user_based_suggestions(user_id, include_current_interests)]
    /\ UNCHANGED <<pc, globals>>

CallGetSimilarInterestsOutOfRange ==
    /\ pc = "ready"
    /\ call = NoCall
    /\ \E interest_id \in OutOfRange(unique_interests) :
         call' = IF IndexError(interest_similarities, interest_id)
                 THEN [op |-> "get_similar_interests", interest_id |-> interest_id,
                       raised |-> "IndexError"]
                 ELSE [op |-> "get_similar_interests", interest_id |-> interest_id,
                       result |-> get_similar_interests(interest_id)]
    /\ UNCHANGED <<pc, globals>>

\* user_interest_matrix[user_id] is the first statement to index with user_id.
CallItemBasedSuggestionsOutOfRange ==
    /\ pc = "ready"
    /\ call = NoCall
    /\ \E user_id \in OutOfRange(users_interests), include_current_interests \in BOOLEAN :
         call' = IF IndexError(user_interest_matrix, user_id)
                 THEN [op |-> "item_based_suggestions", user_id |-> user_id,
                       include_current_interests |-> include_current_interests,
                       raised |-> "IndexError"]
                 ELSE [op |-> "item_based_suggestions", user_id |-> user_id,
                       include_current_interests |-> include_current_interests,
                       result |-> item_based_suggestions(user_id, include_current_interests)]
    /\ UNCHANGED <<pc, globals>>

\* The notebook, and then calls with ids out of range.
NextOutOfRange ==
    \/ Cell1
    \/ Cell2
    \/ Cell6
    \/ Cell8
    \/ Cell9
    \/ Cell17
    \/ Cell18
    \/ CallGetSimilarUsersOutOfRange
    \/ CallUserBasedSuggestionsOutOfRange
    \/ CallGetSimilarInterestsOutOfRange
    \/ CallItemBasedSuggestionsOutOfRange
    \/ Return

SpecOutOfRange == Init /\ [][NextOutOfRange]_vars

------------------------------------------------------------------------------
\* What the properties below speak of.

UserIds == Ids(users_interests)
InterestIds == Ids(unique_interests)
UserSim(u, v) == At(At(user_similarities, u), v)
InterestSim(i, j) == At(At(interest_similarities, i), j)
Holds(u, x) == In(x, At(users_interests, u))
Positive(x) == FloatGT(x, Float0)

\* The labels and the weight a result list reports.
LabelsIn(result) == {result[k][1] : k \in 1..Len(result)}
Reports(result, x, weight) ==
    /\ Cardinality({k \in 1..Len(result) : result[k][1] = x}) = 1
    /\ \E k \in 1..Len(result) : result[k][1] = x /\ FloatEq(result[k][2], weight)

\* The sum of a list of floats from 0.0 on, added one after the other from
\* the first: float addition rounds, so the order is part of the sum.
RECURSIVE SumFloats(_)
SumFloats(terms) ==
    IF terms = <<>> THEN Float0
    ELSE FloatAdd(SumFloats(SubSeq(terms, 1, Len(terms) - 1)), terms[Len(terms)])

\* The lists of a list, one after the other.
RECURSIVE Concat(_)
Concat(lists) == IF lists = <<>> THEN <<>> ELSE Head(lists) \o Concat(Tail(lists))

\* The float x, n times.
Repeat(n, x) == [k \in 1..n |-> x]

Occurrences(x, xs) == Cardinality({k \in 1..Len(xs) : xs[k] = x})

\* A list of pairs is ordered by non-increasing weight, and the first
\* components of two pairs of equal weight by their rank.
Ranked(result, rank) ==
    \A j, k \in 1..Len(result) :
        j < k => /\ FloatGE(result[j][2], result[k][2])
                 /\ FloatEq(result[j][2], result[k][2])
                        => rank[result[j][1]] < rank[result[k][1]]

IsSuggestionCall == call.op \in {"user_based_suggestions", "item_based_suggestions"}

\* The users that get_similar_users(u) lists.
SimilarUsers(u) == {get_similar_users(u)[k][1] : k \in 1..Len(get_similar_users(u))}

\* The ids of the interests that count towards x in item_based_suggestions(u):
\* held by u, other than x, of positive similarity to x.
Contributors(u, x) ==
    {i \in InterestIds : /\ Holds(u, At(unique_interests, i))
                         /\ At(unique_interests, i) # x
                         /\ \E j \in InterestIds : /\ At(unique_interests, j) = x
                                                   /\ Positive(InterestSim(i, j))}
\* Their similarities to x, summed by ascending id of the held interest.
ContributionTo(u, x) ==
    LET j == CHOOSE j \in InterestIds : At(unique_interests, j) = x
        held == SortedList(Contributors(u, x))
    IN SumFloats([k \in 1..Len(held) |-> InterestSim(held[k], j)])

------------------------------------------------------------------------------
\* C1: get_similar_users(u) returns exactly one pair (v, user_similarities[u][v])
\* for each other user v of similarity > 0 to u and no other pair, ordered by
\* non-increasing similarity, users of equal similarity by ascending index.
C1_GetSimilarUsers ==
    call.op = "get_similar_users" =>
        LET u == call.user_id
            r == call.result
        IN /\ \A k \in 1..Len(r) :
                /\ r[k][1] \in UserIds \ {u}
                /\ Positive(UserSim(u, r[k][1]))
                /\ r[k][2] = UserSim(u, r[k][1])
           /\ \A v \in UserIds \ {u} :
                Positive(UserSim(u, v))
                    => Cardinality({k \in 1..Len(r) : r[k][1] = v}) = 1
           /\ Ranked(r, [v \in UserIds |-> v])

\* The sort had to move a pair: the user of the higher index is the more similar.
C1_Witness ==
    /\ call.op = "get_similar_users"
    /\ Len(call.result) >= 2
    /\ call.result[1][1] > call.result[2][1]
    /\ FloatGT(call.result[1][2], call.result[2][2])

\* The similarities of u to its similar users, the most similar first (the
\* order of get_similar_users), each times[v] times.
SimilarityTerms(u, times) ==
    LET similar == get_similar_users(u)
    IN Concat([k \in 1..Len(similar) |->
                   Repeat(times[similar[k][1]], UserSim(u, similar[k][1]))])

\* C2 as claimed: with include_current_interests=True, user_based_suggestions(u)
\* reports for x the sum of similarity(u, v) over the similar users v that hold
\* x (added from the most similar user on), and does not report an interest
\* that no similar user holds.
C2_WeightIsSumOverHolders ==
    (call.op = "user_based_suggestions" /\ call.include_current_interests) =>
        LET u == call.user_id
        IN \A x \in Labels :
              LET holders == {v \in SimilarUsers(u) : Holds(v, x)}
              IN IF holders = {} THEN x \notin LabelsIn(call.result)
                 ELSE Reports(call.result, x,
                              SumFloats(SimilarityTerms(u,
                                  [v \in UserIds |-> IF Holds(v, x) THEN 1 ELSE 0])))

\* What the code computes where C2 fails: the weight reported for x is the
\* sum, over the similar users v from the most similar on, of similarity(u, v)
\* once for each occurrence of x in v's list, so a label repeated in a list
\* counts its holder more than once; an interest held by no similar user is
\* absent.
C2_WeightCountsOccurrences ==
    (call.op = "user_based_suggestions" /\ call.include_current_interests) =>
        LET u == call.user_id
        IN \A x \in Labels :
              LET holders == {v \in SimilarUsers(u) : Holds(v, x)}
              IN IF holders = {} THEN x \notin LabelsIn(call.result)
                 ELSE Reports(call.result, x,
                              SumFloats(SimilarityTerms(u,
                                  [v \in UserIds |->
                                      Occurrences(x, At(users_interests, v))])))

\* The case where the two sums differ is reached: two similar users hold the
\* same interest, one of them twice.
C2_Witness ==
    /\ call.op = "user_based_suggestions"
    /\ call.include_current_interests
    /\ \E x \in Labels : \E v, w \in SimilarUsers(call.user_id) :
          /\ v # w
          /\ Occurrences(x, At(users_interests, v)) >= 2
          /\ Holds(w, x)

\* C3: with include_current_interests=True, item_based_suggestions(u) reports
\* for x the sum of interest_similarities[i][x] over the interests i held by u
\* with i != x and positive similarity to x; an interest with no such i is not
\* reported.
C3_ItemWeightIsSum ==
    (call.op = "item_based_suggestions" /\ call.include_current_interests) =>
        LET u == call.user_id
        IN \A x \in Labels :
              IF \/ ~In(x, unique_interests)
                 \/ Contributors(u, x) = {}
              THEN x \notin LabelsIn(call.result)
              ELSE Reports(call.result, x, ContributionTo(u, x))

\* A reported interest is similar to two held interests, and it is held itself
\* (so its self-similarity, which is positive, was there to be added).
C3_Witness ==
    /\ call.op = "item_based_suggestions"
    /\ call.include_current_interests
    /\ \E x \in LabelsIn(call.result) :
          /\ Cardinality(Contributors(call.user_id, x)) >= 2
          /\ Holds(call.user_id, x)
          /\ \E j \in InterestIds : /\ At(unique_interests, j) = x
                                    /\ Positive(InterestSim(j, j))

\* C4: with include_current_interests=False, neither user_based_suggestions(u)
\* nor item_based_suggestions(u) returns an interest of users_interests[u].
C4_NoCurrentInterest ==
    (IsSuggestionCall /\ ~call.include_current_interests) =>
        \A k \in 1..Len(call.result) : ~Holds(call.user_id, call.result[k][1])

\* Both functions have something to suggest to the user and something to filter.
C4_Witness ==
    /\ call.op = "item_based_suggestions"
    /\ ~call.include_current_interests
    /\ call.result # <<>>
    /\ Len(item_based_suggestions(call.user_id, TRUE)) > Len(call.result)
    /\ user_based_suggestions(call.user_id, FALSE) # <<>>
    /\ Len(user_based_suggestions(call.user_id, TRUE))
          > Len(user_based_suggestions(call.user_id, FALSE))

\* The interests that the loop of each function accumulates for user u.
Accumulated(op, u) ==
    IF op = "user_based_suggestions"
    THEN {x \in Labels : \E v \in SimilarUsers(u) : Holds(v, x)}
    ELSE {x \in Labels : In(x, unique_interests) /\ Contributors(u, x) # {}}

Suggestions(op, u, include_current_interests) ==
    IF op = "user_based_suggestions"
    THEN user_based_suggestions(u, include_current_interests)
    ELSE item_based_suggestions(u, include_current_interests)

\* C5: for both functions, the list returned with include_current_interests=True
\* holds every accumulated interest, and the list returned with False is that
\* list without the pairs of the interests in users_interests[u], the other
\* pairs in the same order with the same weights.
C5_FlagOnlyFilters ==
    IsSuggestionCall =>
        LET u == call.user_id
            full == Suggestions(call.op, u, TRUE)
            NotHeld(p) == ~Holds(u, p[1])
        IN IF call.include_current_interests
           THEN /\ LabelsIn(call.result) = Accumulated(call.op, u)
                /\ Len(call.result) = Cardinality(Accumulated(call.op, u))
           ELSE call.result = SelectSeq(full, NotHeld)

\* A default call that drops some pairs of the full list and keeps others.
C5_Witness ==
    /\ pc = "ready"
    /\ call.op = "user_based_suggestions"
    /\ ~call.include_current_interests
    /\ call.result # <<>>
    /\ Len(call.result) < Len(user_based_suggestions(call.user_id, TRUE))
    /\ Len(item_based_suggestions(call.user_id, FALSE))
          < Len(item_based_suggestions(call.user_id, TRUE))

\* The interests in the order in which each function first accumulates them:
\* the lists of the similar users in get_similar_users order, or the lists
\* get_similar_interests returns for the held interests in ascending id.

Scanned(op, u) ==
    IF op = "user_based_suggestions"
    THEN LET similar == get_similar_users(u)
         IN Concat([k \in 1..Len(similar) |-> At(users_interests, similar[k][1])])
    ELSE LET IsHeld(i) == At(At(user_interest_matrix, u), i) = 1
             held == SelectSeq([k \in 1..Len(unique_interests) |-> k - 1], IsHeld)
             Names(pairs) == [k \in 1..Len(pairs) |-> pairs[k][1]]
         IN Concat([k \in 1..Len(held) |-> Names(get_similar_interests(held[k]))])

FirstSeen(scanned, x) == CHOOSE k \in 1..Len(scanned) :
                            /\ scanned[k] = x
                            /\ \A j \in 1..(k - 1) : scanned[j] # x

\* C6: the list of either suggestion function is ordered by non-increasing
\* weight, and interests of equal weight are in the order in which they were
\* first accumulated.
C6_RankedByWeight ==
    IsSuggestionCall =>
        LET scanned == Scanned(call.op, call.user_id)
        IN /\ LabelsIn(call.result) \subseteq {scanned[k] : k \in 1..Len(scanned)}
           /\ Ranked(call.result,
                     [x \in LabelsIn(call.result) |-> FirstSeen(scanned, x)])

\* Three interests are returned: two of equal weight, in the order in which they
\* were first accumulated, and one that the sort moved ahead of an interest
\* accumulated before it.
C6_Witness ==
    /\ call.op = "item_based_suggestions"
    /\ Len(call.result) >= 3
    /\ \E j, k \in 1..Len(call.result) :
          j < k /\ FloatEq(call.result[j][2], call.result[k][2])
    /\ \E j, k \in 1..Len(call.result) :
          /\ j < k
          /\ FloatGT(call.result[j][2], call.result[k][2])
          /\ FirstSeen(Scanned(call.op, call.user_id), call.result[j][1])
                > FirstSeen(Scanned(call.op, call.user_id), call.result[k][1])

\* C7: no pair of get_similar_users(u) has u as its user.
C7_NeverSelf ==
    call.op = "get_similar_users" =>
        \A k \in 1..Len(call.result) : call.result[k][1] # call.user_id

\* A user similar to itself and to somebody else.
C7_Witness ==
    /\ call.op = "get_similar_users"
    /\ call.result # <<>>
    /\ Positive(UserSim(call.user_id, call.user_id))

\* C8: get_similar_interests(i) returns exactly one pair (unique_interests[j],
\* interest_similarities[i][j]) for each j != i of similarity > 0 and no other
\* pair, ordered by non-increasing similarity, equal similarities by ascending j.
C8_GetSimilarInterests ==
    call.op = "get_similar_interests" =>
        LET i == call.interest_id
            r == call.result
        IN /\ \A k \in 1..Len(r) :
                \E j \in InterestIds \ {i} :
                    /\ r[k][1] = At(unique_interests, j)
                    /\ Positive(InterestSim(i, j))
                    /\ r[k][2] = InterestSim(i, j)
           /\ \A j \in InterestIds \ {i} :
                Positive(InterestSim(i, j))
                    => Cardinality({k \in 1..Len(r) :
                                       r[k][1] = At(unique_interests, j)}) = 1
           /\ \A k \in 1..Len(r) : r[k][1] # At(unique_interests, i)
           /\ Ranked(r, [x \in LabelsIn(r) |->
                            CHOOSE j \in InterestIds : At(unique_interests, j) = x])

\* The sort had to move a pair, and an interest of similarity 0 is left out.
C8_Witness ==
    /\ call.op = "get_similar_interests"
    /\ Len(call.result) >= 2
    /\ call.result[1][1] > call.result[2][1]
    /\ FloatGT(call.result[1][2], call.result[2][2])

\* C9: generate_user_interest_vector(L) is as long as unique_interests, holds
\* only 0 and 1, and element i is 1 exactly when unique_interests[i] occurs in L.
C9_MembershipVector ==
    call.op = "generate_user_interest_vector" =>
        /\ Len(call.result) = Len(unique_interests)
        /\ \A i \in 1..Len(call.result) :
              /\ call.result[i] \in {0, 1}
              /\ call.result[i] = 1
                    <=> \E k \in 1..Len(call.user_interests) :
                            call.user_interests[k] = unique_interests[i]

\* L repeats a canonical label, names a label that is not canonical, and misses
\* a canonical one.
C9_Witness ==
    /\ call.op = "generate_user_interest_vector"
    /\ \E i \in 1..Len(unique_interests) :
          Occurrences(unique_interests[i], call.user_interests) >= 2
    /\ \E k \in 1..Len(call.user_interests) :
          ~In(call.user_interests[k], unique_interests)
    /\ \E i \in 1..Len(call.result) : call.result[i] = 0

\* C10: cosine_similarity(v, w) == cosine_similarity(w, v) for the vectors the
\* notebook builds, so both similarity matrices are symmetric.
C10_Symmetric ==
    pc = "ready" =>
        /\ \A u, v \in 1..Len(user_interest_matrix) :
              FloatEq(cosine_similarity(user_interest_matrix[u], user_interest_matrix[v]),
                      cosine_similarity(user_interest_matrix[v], user_interest_matrix[u]))
        /\ \A u, v \in UserIds : FloatEq(UserSim(u, v), UserSim(v, u))
        /\ \A i, j \in InterestIds : FloatEq(InterestSim(i, j), InterestSim(j, i))

------------------------------------------------------------------------------
\* The float 1.0, the interests of a user as a set, and the users that hold an
\* interest.
One == Finite(BigPow2(FracBits))
LabelSet(u) == {x \in Labels : Holds(u, x)}
Holders(i) == {u \in UserIds : Holds(u, At(unique_interests, i))}
IsZero(v) == \A k \in 1..Len(v) : v[k] = 0
Rows == {user_interest_matrix[u] : u \in 1..Len(user_interest_matrix)}
            \cup {interest_user_matrix[j] : j \in 1..Len(interest_user_matrix)}

\* C11: cosine_similarity(v, v) is 1.0 for every vector v the notebook builds
\* that is not all-zero; two users with the same non-empty set of labels have
\* similarity 1.0, and so have two interests held by the same users.
C11_SelfSimilarityOne ==
    pc = "ready" =>
        /\ \A v \in Rows : ~IsZero(v) => cosine_similarity(v, v) = One
        /\ \A u, v \in UserIds :
              (LabelSet(u) = LabelSet(v) /\ LabelSet(u) # {})
                  => FloatEq(UserSim(u, v), One)
        /\ \A i, j \in InterestIds :
              Holders(i) = Holders(j) => FloatEq(InterestSim(i, j), One)

\* Two users list the same two labels in different orders, so two interests
\* have the same holders.
C11_Witness ==
    /\ pc = "ready"
    /\ \E u, v \in UserIds :
          /\ u # v
          /\ LabelSet(u) = LabelSet(v)
          /\ Cardinality(LabelSet(u)) >= 2
          /\ At(users_interests, u) # At(users_interests, v)
    /\ \E i, j \in InterestIds : i # j /\ Holders(i) = Holders(j)

\* C12: two users with no common interest have user similarity 0, and two
\* interests that no user holds together have interest similarity 0.
C12_DisjointGivesZero ==
    pc = "ready" =>
        /\ \A u, v \in UserIds :
              LabelSet(u) \cap LabelSet(v) = {} => FloatEq(UserSim(u, v), Float0)
        /\ \A i, j \in InterestIds :
              Holders(i) \cap Holders(j) = {} => FloatEq(InterestSim(i, j), Float0)

\* C13: user_similarities is N x N and interest_similarities M x M, every entry
\* of both lies in [0, 1], and every diagonal entry is 1.
C13_UnitRangeUnitDiagonal ==
    pc = "ready" =>
        /\ Len(user_similarities) = Len(users_interests)
        /\ Len(interest_similarities) = Len(unique_interests)
        /\ \A u \in UserIds :
              /\ Len(At(user_similarities, u)) = Len(users_interests)
              /\ FloatEq(UserSim(u, u), One)
              /\ \A v \in UserIds : /\ FloatGE(UserSim(u, v), Float0)
                                     /\ FloatGE(One, UserSim(u, v))
        /\ \A i \in InterestIds :
              /\ Len(At(interest_similarities, i)) = Len(unique_interests)
              /\ FloatEq(InterestSim(i, i), One)
              /\ \A j \in InterestIds : /\ FloatGE(InterestSim(i, j), Float0)
                                         /\ FloatGE(One, InterestSim(i, j))

\* C14: cosine_similarity(v, w) is 0 when v or w is all-zero.
C14_ZeroNormGivesZero ==
    pc = "ready" =>
        \A v, w \in Rows :
            (Len(v) = Len(w) /\ (IsZero(v) \/ IsZero(w)))
                => FloatEq(cosine_similarity(v, w), Float0)

\* u shares an interest with another user; that user also holds an interest
\* that u does not hold.
SharesWithOther(u) ==
    \E v \in UserIds \ {u} : LabelSet(u) \cap LabelSet(v) # {}
\* item_based_suggestions can be called: cell 18 has bound
\* interest_similarities.  (user_based_suggestions can be called in every state
\* that holds a call of either.)
ItemBasedCallable == pc = "ready"

SharerHoldsNew(u) ==
    \E v \in UserIds \ {u} : /\ LabelSet(u) \cap LabelSet(v) # {}
                              /\ LabelSet(v) \ LabelSet(u) # {}

\* C15 as claimed: if u shares an interest with another user, then
\* user_based_suggestions(u) and item_based_suggestions(u), called with
\* include_current_interests=False, both return a non-empty list.
C15_NonEmptyWhenSharing ==
    (IsSuggestionCall /\ ~call.include_current_interests) =>
        (SharesWithOther(call.user_id)
            => /\ call.result # <<>>
               /\ user_based_suggestions(call.user_id, FALSE) # <<>>
               /\ ItemBasedCallable
                     => item_based_suggestions(call.user_id, FALSE) # <<>>)

\* C15 amended: if u shares an interest with another user who also holds an
\* interest that u does not hold, then both default calls return a non-empty
\* list.
C15_NonEmptyWhenSharerHoldsNew ==
    (IsSuggestionCall /\ ~call.include_current_interests) =>
        (SharerHoldsNew(call.user_id)
            => /\ call.result # <<>>
               /\ user_based_suggestions(call.user_id, FALSE) # <<>>
               /\ ItemBasedCallable
                     => item_based_suggestions(call.user_id, FALSE) # <<>>)

\* A default call for a user with two sharers: one holds something new, the
\* other nothing new; the filter dropped a pair and kept a pair.
C15_Witness ==
    /\ IsSuggestionCall
    /\ ~call.include_current_interests
    /\ SharerHoldsNew(call.user_id)
    /\ \E v \in UserIds \ {call.user_id} :
          /\ LabelSet(call.user_id) \cap LabelSet(v) # {}
          /\ LabelSet(v) \subseteq LabelSet(call.user_id)
    /\ call.result # <<>>
    /\ Len(call.result) < Len(Suggestions(call.op, call.user_id, TRUE))

\* C16: a call of get_similar_users, user_based_suggestions,
\* item_based_suggestions or get_similar_interests with an id outside 0..N-1
\* (0..M-1 for an interest id), negative ids included, raises: it returns no
\* result.
C16_OutOfRangeFails ==
    /\ (call.op \in {"get_similar_users", "user_based_suggestions",
                     "item_based_suggestions"} /\ call.user_id \notin UserIds)
          => "result" \notin DOMAIN call
    /\ (call.op = "get_similar_interests" /\ call.interest_id \notin InterestIds)
          => "result" \notin DOMAIN call

\* C17: from the empty table the cells build empty lists; with a single user
\* get_similar_users(0) and the default calls of user_based_suggestions(0) and
\* item_based_suggestions(0) return the empty list.
C17_EmptyAndSingleUser ==
    /\ (pc = "ready" /\ users_interests = <<>>)
          => /\ unique_interests = <<>>
             /\ user_interest_matrix = <<>>
             /\ user_similarities = <<>>
             /\ interest_user_matrix = <<>>
             /\ interest_similarities = <<>>
    /\ (call # NoCall /\ Len(users_interests) = 1)
          => /\ call.op = "get_similar_users" => call.result = <<>>
             /\ (IsSuggestionCall /\ ~call.include_current_interests)
                   => call.result = <<>>

\* The single user holds two interests: each is similar to the other, and the
\* default filter of item_based_suggestions drops both.
C17_Witness ==
    /\ pc = "ready"
    /\ Len(users_interests) = 1
    /\ call.op = "item_based_suggestions"
    /\ ~call.include_current_interests
    /\ call.result = <<>>
    /\ Len(item_based_suggestions(0, TRUE)) >= 2

\* The comprehension of cell 17 applied to a matrix with one row per interest:
\* the list it enumerates is then users_interests, one row per user.
TransposedBack(matrix) ==
    [u \in 1..Len(users_interests) |->
        [j \in 1..Len(matrix) |-> matrix[j][u]]]

\* C18: transposing interest_user_matrix, the transposition of
\* user_interest_matrix, gives user_interest_matrix again; so it does for a
\* table of users without any interest, whose transposition has no row.
C18_TransposedTwice ==
    pc \in {"cell18", "ready"} =>
        TransposedBack(interest_user_matrix) = user_interest_matrix

\* A matrix that is not square, with rows that differ.
C18_Witness ==
    /\ pc = "ready"
    /\ Len(users_interests) >= 2
    /\ Len(unique_interests) >= 2
    /\ Len(users_interests) # Len(unique_interests)
    /\ \E u, v \in 1..Len(user_interest_matrix) :
          user_interest_matrix[u] # user_interest_matrix[v]
    /\ interest_user_matrix # user_interest_matrix

\* The list that the call recorded in `call` returns when it is made again.
Repeated ==
    CASE call.op = "get_similar_users" -> get_similar_users(call.user_id)
      [] call.op = "get_similar_interests" -> get_similar_interests(call.interest_id)
      [] call.op = "user_based_suggestions" ->
            user_based_suggestions(call.user_id, call.include_current_interests)
      [] call.op = "item_based_suggestions" ->
            item_based_suggestions(call.user_id, call.include_current_interests)
      [] call.op = "most_popular_new_interests" ->
            most_popular_new_interests(call.user_interests, call.max_results)

\* C19: a step that makes a call, or ends one, leaves users_interests,
\* unique_interests, user_interest_matrix, user_similarities,
\* interest_user_matrix and interest_similarities as they were, and when a
\* call ends, the same call made again returns the same list.
C19_CallsAreRepeatable ==
    [][call' # call =>
          /\ UNCHANGED <<users_interests, unique_interests, user_interest_matrix,
                         user_similarities, interest_user_matrix,
                         interest_similarities>>
          /\ call # NoCall => call.result = Repeated]_vars

\* A call of most_popular_new_interests, made after the last cell, that left
\* out an interest of the list and cut the ranking short.
C19_Witness ==
    /\ pc = "ready"
    /\ call.op = "most_popular_new_interests"
    /\ call.result # <<>>
    /\ \E k \in 1..Len(popular_interests) :
          In(popular_interests[k][1], call.user_interests)
    /\ Len(call.result)
          < Len(most_popular_new_interests(call.user_interests, DefaultMaxResults))

\* The 0/1 vector over the users of the holders of interest x.
HolderVector(x) == [u \in 1..Len(users_interests) |-> IF Holds(u - 1, x) THEN 1 ELSE 0]

\* C20: once the cells have run, unique_interests is strictly ascending and
\* holds exactly the labels of the table; every row of user_interest_matrix has
\* one slot per entry of unique_interests, in that order; interest_user_matrix
\* has M rows of length N with interest_user_matrix[j][u] =
\* user_interest_matrix[u][j]; and interest_similarities[i][j] is the
\* similarity of unique_interests[i] and unique_interests[j].
C20_CanonicalOrder ==
    pc = "ready" =>
        LET N == Len(users_interests)
            M == Len(unique_interests)
        IN /\ \A i, j \in 1..M : i < j => unique_interests[i] < unique_interests[j]
           /\ \A x \in Labels :
                 In(x, unique_interests) <=> \E u \in UserIds : Holds(u, x)
           /\ Len(user_interest_matrix) = N
           /\ \A u \in UserIds :
                 /\ Len(At(user_interest_matrix, u)) = M
                 /\ \A j \in InterestIds :
                       At(At(user_interest_matrix, u), j)
                           = IF Holds(u, At(unique_interests, j)) THEN 1 ELSE 0
           /\ Len(interest_user_matrix) = M
           /\ \A j \in InterestIds :
                 /\ Len(At(interest_user_matrix, j)) = N
                 /\ \A u \in UserIds :
                       At(At(interest_user_matrix, j), u)
                           = At(At(user_interest_matrix, u), j)
           /\ Len(interest_similarities) = M
           /\ \A i \in InterestIds :
                 /\ Len(At(interest_similarities, i)) = M
                 /\ \A j \in InterestIds :
                       InterestSim(i, j)
                           = cosine_similarity(HolderVector(At(unique_interests, i)),
                                               HolderVector(At(unique_interests, j)))

\* The table names its labels out of order and one of them twice, the matrix
\* is not square, and two interests differ in their holders.
C20_Witness ==
    /\ pc = "ready"
    /\ Len(users_interests) # Len(unique_interests)
    /\ Len(unique_interests) >= 2
    /\ \E k, l \in 1..Len(Flatten(users_interests)) :
          k < l /\ Flatten(users_interests)[k] > Flatten(users_interests)[l]
    /\ Len(Flatten(users_interests)) > Len(unique_interests)
    /\ \E i, j \in InterestIds : Holders(i) # Holders(j)

\* The labels of user u's list, whatever the labels of the table are.
Held(u) == {At(users_interests, u)[k] : k \in 1..Len(At(users_interests, u))}

\* a * b, the limbs of a one by one.
RECURSIVE BigMulFrom(_, _, _)
BigMulFrom(a, b, i) ==
    IF i > NumLimbs THEN BigZero
    ELSE BigAdd(Tuple([k \in 1..NumLimbs |->
                          IF k >= i THEN BigTimes(a[i], b)[k - i + 1] ELSE 0]),
                BigMulFrom(a, b, i + 1))
BigMul(a, b) == BigMulFrom(a, b, 1)

\* C21: on the table of cell 1, users 0 and 9 share Big Data, Hadoop and Java
\* and nothing else, they hold 7 and 4 interests, and user_similarities[0][9]
\* is the double 3 / np.sqrt(7 * 4): it lies between 0.5669 and 0.5670, and 28
\* times its square is 9 to within 2^-47.
C21_SampleSimilarity ==
    pc = "ready" =>
        /\ {SampleNames[x] : x \in Held(0) \cap Held(9)} = {"Big Data", "Hadoop", "Java"}
        /\ Cardinality(Held(0)) = 7
        /\ Cardinality(Held(9)) = 4
        /\ UserSim(0, 9) = Finite(BigDiv(3, BigSqrt(7 * 4)))
        /\ UserSim(9, 0) = UserSim(0, 9)
        /\ LET x == UserSim(0, 9).val
               unit == BigPow2(FracBits)
               square == BigMul(BigTimes(28, x), x)
               nine == BigTimes(9, BigPow2(2 * FracBits))
               eps == BigPow2(2 * FracBits - 47)
           IN /\ ~BigLT(BigTimes(10000, x), BigTimes(5669, unit))
              /\ BigLT(BigTimes(10000, x), BigTimes(5670, unit))
              /\ BigLT(BigSub(nine, eps), square)
              /\ BigLT(square, BigAdd(nine, eps))

C21_Witness ==
    /\ pc = "ready"
    /\ users_interests = SampleTable
    /\ Positive(UserSim(0, 9))
    /\ ~FloatEq(UserSim(0, 9), One)

\* C22: on the table of cell 1, get_similar_users(0) returns the users 9, 1,
\* 8, 13 and 5 in that order, each less similar than the one before it.
C22_SampleSimilarUsers ==
    (call.op = "get_similar_users" /\ call.user_id = 0) =>
        /\ [k \in 1..Len(call.result) |-> call.result[k][1]] = <<9, 1, 8, 13, 5>>
        /\ \A k \in 1..(Len(call.result) - 1) :
              FloatGT(call.result[k][2], call.result[k + 1][2])

C22_Witness ==
    /\ call.op = "get_similar_users"
    /\ call.user_id = 0
    /\ users_interests = SampleTable
    /\ Len(call.result) = 5
    /\ call.result[1] = <<9, UserSim(0, 9)>>

\* What C23 says of a call that asked for n results and got r.
PopularNew(r, user_interests, n) ==
    LET table == Concat(users_interests)
        new == {table[k] : k \in 1..Len(table)} \ {user_interests[k] : k \in 1..Len(user_interests)}
        Count(x) == Occurrences(x, table)
        Before(x, y) == \/ Count(x) > Count(y)
                        \/ Count(x) = Count(y) /\ FirstSeen(table, x) < FirstSeen(table, y)
    IN /\ Len(r) <= n
       /\ Len(r) = IF n < Cardinality(new) THEN n ELSE Cardinality(new)
       /\ \A k \in 1..Len(r) : r[k][1] \in new /\ r[k][2] = Count(r[k][1])
       /\ \A j, k \in 1..Len(r) : j < k => Before(r[j][1], r[k][1])
       /\ \A x \in new \ LabelsIn(r) : \A k \in 1..Len(r) : Before(r[k][1], x)

\* C23: most_popular_new_interests(user_interests, max_results) returns at most
\* max_results pairs (interest, number of occurrences in the table), none of an
\* interest in user_interests: the first max_results such interests by
\* non-increasing count, interests of equal count in order of first occurrence.
C23_MostPopularNewInterests ==
    call.op = "most_popular_new_interests" =>
        PopularNew(call.result, call.user_interests, call.max_results)

\* C23 for the calls that ask for a number of results that is not negative.
C23_CountedResults ==
    (call.op = "most_popular_new_interests" /\ call.max_results >= 0) =>
        PopularNew(call.result, call.user_interests, call.max_results)

\* A call cut short by max_results, after an interest was left out and a tie
\* was broken by first occurrence.
C23_Witness ==
    /\ call.op = "most_popular_new_interests"
    /\ call.max_results = Len(call.result)
    /\ Len(call.result) = 2
    /\ call.result[1][2] = call.result[2][2]
    /\ call.result[1][1] > call.result[2][1]
    /\ Len(call.user_interests) > 0
    /\ In(call.user_interests[1], Concat(users_interests))

\* Every user holds an interest.
NoEmptyList == \A u \in UserIds : At(users_interests, u) # <<>>

\* The users other than u that hold an interest u holds, and the interests
\* they hold and u does not.
Sharers(u) == {v \in UserIds \ {u} : Held(u) \cap Held(v) # {}}
NewFromSharers(u) == UNION {Held(v) : v \in Sharers(u)} \ Held(u)

\* C24: in a table without an empty list, user_based_suggestions(u) and
\* item_based_suggestions(u) with the default filtering list the same
\* interests: those u does not hold and a user sharing an interest with u holds.
C24_SameSuggestedLabels ==
    (IsSuggestionCall /\ ~call.include_current_interests /\ NoEmptyList) =>
        /\ LabelsIn(call.result) = NewFromSharers(call.user_id)
        /\ ItemBasedCallable
              => LabelsIn(user_based_suggestions(call.user_id, FALSE))
                    = LabelsIn(item_based_suggestions(call.user_id, FALSE))

\* Something is suggested, and an interest of the table is not: its holders
\* share nothing with the user.
C24_Witness ==
    /\ IsSuggestionCall
    /\ ~call.include_current_interests
    /\ NoEmptyList
    /\ call.result # <<>>
    /\ \E v \in UserIds : Held(v) \ (Held(call.user_id) \cup LabelsIn(call.result)) # {}

\* C25: for a user u with an interest, get_similar_users(u) lists v exactly
\* when v is another user holding an interest u holds; then get_similar_users(v)
\* lists u with the same similarity, and otherwise it does not list u.
C25_SimilarIffSharing ==
    (call.op = "get_similar_users" /\ At(users_interests, call.user_id) # <<>>) =>
        LET u == call.user_id
            r == call.result
            listed == {r[k][1] : k \in 1..Len(r)}
        IN /\ listed = Sharers(u)
           /\ \A k \in 1..Len(r) :
                \E j \in 1..Len(get_similar_users(r[k][1])) :
                    /\ get_similar_users(r[k][1])[j][1] = u
                    /\ FloatEq(get_similar_users(r[k][1])[j][2], r[k][2])
           /\ \A v \in UserIds \ listed : u \notin SimilarUsers(v)

\* One user is listed with a similarity below 1, another, who holds an
\* interest, is not.
C25_Witness ==
    /\ call.op = "get_similar_users"
    /\ At(users_interests, call.user_id) # <<>>
    /\ Len(call.result) = 1
    /\ ~FloatEq(call.result[1][2], One)
    /\ \E v \in UserIds \ {call.user_id, call.result[1][1]} : At(users_interests, v) # <<>>

\* The users whose list is empty.
EmptyUsers == {e \in UserIds : At(users_interests, e) = <<>>}

\* C26: when a user's list is empty, user_similarities is built all the same,
\* with NaN in the whole row and column of that user; get_similar_users of
\* that user returns [], no get_similar_users result lists that user, no
\* suggestion list carries a NaN weight, and interest_similarities has no NaN.
C26_EmptyListGivesNaN ==
    /\ (pc \in {"cell17", "cell18", "ready"} /\ EmptyUsers # {}) =>
            /\ Len(user_similarities) = Len(users_interests)
            /\ \A e \in EmptyUsers : \A v \in UserIds :
                  UserSim(e, v) = NaN /\ UserSim(v, e) = NaN
    /\ (pc = "ready" /\ EmptyUsers # {}) =>
            /\ \A i, j \in InterestIds : ~InterestSim(i, j).nan
            /\ \A e \in EmptyUsers : get_similar_users(e) = <<>>
            /\ \A v \in UserIds : SimilarUsers(v) \cap EmptyUsers = {}
    /\ (call.op = "get_similar_users" /\ EmptyUsers # {}) =>
            /\ call.user_id \in EmptyUsers => call.result = <<>>
            /\ \A k \in 1..Len(call.result) : call.result[k][1] \notin EmptyUsers
    /\ (IsSuggestionCall /\ EmptyUsers # {}) =>
            \A k \in 1..Len(call.result) : ~call.result[k][2].nan

\* Suggestions are made to a user of a table in which another user's list is
\* empty.
C26_Witness ==
    /\ IsSuggestionCall
    /\ call.result # <<>>
    /\ EmptyUsers # {}
    /\ \E e \in EmptyUsers : UserSim(e, call.user_id).nan

\* C27: a list returned by user_based_suggestions or item_based_suggestions,
\* with either value of the flag, names no interest twice and carries only
\* weights greater than 0.
C27_DistinctPositive ==
    IsSuggestionCall =>
        /\ \A j, k \in 1..Len(call.result) :
              j # k => call.result[j][1] # call.result[k][1]
        /\ \A k \in 1..Len(call.result) : Positive(call.result[k][2])

\* Two interests are listed, and one of them was accumulated more than once:
\* its weight is above every single similarity.
C27_Witness ==
    /\ IsSuggestionCall
    /\ Len(call.result) >= 2
    /\ FloatGT(call.result[1][2], One)

====
